---- MODULE Spec2Model ----
(***************************************************************************)
(* GraphRAG: hybrid retrieval (vector, full-text, graph traversal), score  *)
(* fusion, context assembly, answer generation and the /api/query layer.   *)
(*                                                                         *)
(* Strings are held by what the code looks at: an entry is named by its    *)
(* id (Entry.id is unique, graph_builder.py:20, and fixes title, category, *)
(* content and knowledge base), a text by the blocks and lengths it is     *)
(* made of.  Scores are rationals held as integer multiples of 1/Unit; a   *)
(* combined score is held as a multiple of 1/(10*Unit), the weights being  *)
(* tenths.                                                                 *)
(***************************************************************************)
EXTENDS Integers, Sequences, FiniteSets, TLC

\* ------------------------------------------------------------- universe

\* Entry ids the graph store may hold.
Ids == {"a", "b"}

\* Request threads of the Flask server (app.run, threaded by default).
Threads == {"t1", "t2"}

\* Session ids a request may carry.
Sessions == {"s1", "s2"}

\* Bounds of the model.
MaxTopK == 2
MaxDepth == 3
MaxList == 3

\* Scores are multiples of 1/Unit; 1/distance is exact for distance 1..6.
Unit == 2 * 2 * 3 * 5

\* Similarity scores of the vector index (0.4, 0.8) and relevance scores of
\* the full-text index (1.0, 3.1: engine-defined, not bounded by 1).
SemScores == {24, 48}
KwScores == {60, 186}

\* Character budgets a direct caller of build_context passes.
MaxLengths == {0, 1560, 2700, 4000, 4300}

\* Program constants.
SemanticTopK == 20
KeywordTopK == 5
RelatedLimit == 5
RelatedDepth == 1
QueryTopK == 5
ContextMaxLength == 4000
SemanticWeight == 5
KeywordWeight == 4
RelatedWeight == 1
PartOverhead == 59

\* len(title) + len(category) + len(content) + len(knowledge_base_name) of
\* each entry, as ingested.
FieldsLen == [id \in Ids |-> IF id = "a" THEN 1500 ELSE 2600]

Min(x, y) == IF x < y THEN x ELSE y
Max(x, y) == IF x > y THEN x ELSE y

\* ------------------------------------------------- sequences as lists

\* All sequences over S of length at most n without a repeated element.
DistinctSeqs(S, n) ==
  { s \in UNION { [1..k -> S] : k \in 0..n } :
      \A i, j \in 1..Len(s) : i # j => s[i] # s[j] }

\* All orderings of the finite set S.
Perms(S) == { s \in [1..Cardinality(S) -> S] :
                \A i, j \in 1..Cardinality(S) : i # j => s[i] # s[j] }

\* Python's s[:k].
Slice(s, k) ==
  IF k >= 0 THEN SubSeq(s, 1, Min(k, Len(s)))
            ELSE SubSeq(s, 1, Max(Len(s) + k, 0))

RECURSIVE SumLen(_)
SumLen(parts) ==
  IF parts = <<>> THEN 0 ELSE Head(parts).len + SumLen(Tail(parts))

\* ---------------------------------------------------- retrieval channels

\* semantic_search: the vector index yields up to top_k nodes by descending
\* score; each Entry has one containing KnowledgeBase, so each id once.
SemanticOutcomes(E, top_k) ==
  UNION { { [i \in 1..Len(ids) |-> [id |-> ids[i], similarity |-> sc[i]]] :
              sc \in { f \in [1..Len(ids) -> SemScores] :
                         \A i \in 1..(Len(ids) - 1) : f[i] >= f[i + 1] } } :
          ids \in DistinctSeqs(E, Min(top_k, Cardinality(E))) }

\* keyword_search: the full-text index yields nodes by descending score,
\* LIMIT $top_k.
KeywordOutcomes(E, top_k) ==
  UNION { { [i \in 1..Len(ids) |-> [id |-> ids[i], score |-> sc[i]]] :
              sc \in { f \in [1..Len(ids) -> KwScores] :
                         \A i \in 1..(Len(ids) - 1) : f[i] >= f[i + 1] } } :
          ids \in DistinctSeqs(E, Min(top_k, Cardinality(E))) }

\* MATCH path = (e {id: $entry_id})-[...*1..depth]->(related): every path
\* out of node that repeats no relationship (Cypher's relationship
\* uniqueness), of length len+1..depth; a row per path: its end node and
\* its length.
RECURSIVE PathRows(_, _, _, _, _)
PathRows(R, node, used, len, depth) ==
  UNION { {[id |-> e[2], distance |-> len + 1]} \cup
          (IF len + 1 < depth
             THEN PathRows(R, e[2], used \cup {e}, len + 1, depth)
             ELSE {}) :
          e \in { r \in R \ used : r[1] = node } }

\* RETURN DISTINCT related.id, ..., length(path) AS distance: the distinct
\* rows; a row is an id together with a distance.
RelatedRows(E, R, entry_id, depth) ==
  IF entry_id \in E THEN PathRows(R, entry_id, {}, 0, depth) ELSE {}

\* ORDER BY distance: the rows in any order that is ascending in distance
\* (the order among rows of one distance is the store's choice).
RECURSIVE OrderByDistance(_, _, _)
OrderByDistance(rows, d, depth) ==
  IF d > depth THEN {<<>>}
  ELSE { p \o rest : p \in Perms({ r \in rows : r.distance = d }),
                     rest \in OrderByDistance(rows, d + 1, depth) }

\* The query without its LIMIT.
LimitNone(s) == s

\* LIMIT 5.
Limit(s) == SubSeq(s, 1, Min(RelatedLimit, Len(s)))

\* get_related_entries: every list the query may return.
get_related_entries(E, R, entry_id, depth) ==
  { Limit(s) : s \in OrderByDistance(RelatedRows(E, R, entry_id, depth), 1, depth) }

\* ------------------------------------------------------------- fusion

\* all_results is a dict: a list of records in insertion order, one per key.
HasKey(d, id) == \E i \in 1..Len(d) : d[i].id = id

\* d[id] = rec: in place when the key is present, appended otherwise.
DictSet(d, rec) ==
  IF HasKey(d, rec.id)
    THEN [i \in 1..Len(d) |-> IF d[i].id = rec.id THEN rec ELSE d[i]]
    ELSE Append(d, rec)

Hit(id, s, k, r) ==
  [id |-> id, semantic_score |-> s, keyword_score |-> k, related_score |-> r]

\* for result in semantic_results: all_results[id] = {...}
RECURSIVE MergeSemantic(_, _)
MergeSemantic(d, results) ==
  IF results = <<>> THEN d
  ELSE MergeSemantic(
         DictSet(d, Hit(Head(results).id, Head(results).similarity, 0, 0)),
         Tail(results))

\* for result in keyword_results: set keyword_score, or insert.
RECURSIVE MergeKeyword(_, _)
MergeKeyword(d, results) ==
  IF results = <<>> THEN d
  ELSE LET r == Head(results) IN
       MergeKeyword(
         IF HasKey(d, r.id)
           THEN [i \in 1..Len(d) |->
                   IF d[i].id = r.id
                     THEN [d[i] EXCEPT !.keyword_score = r.score] ELSE d[i]]
           ELSE Append(d, Hit(r.id, 0, r.score, 0)),
         Tail(results))

\* related_score = 1 / distance if distance > 0 else 0
RelatedScore(distance) == IF distance > 0 THEN Unit \div distance ELSE 0

\* for result in related_entries_results: set related_score, or insert.
RECURSIVE MergeRelated(_, _)
MergeRelated(d, results) ==
  IF results = <<>> THEN d
  ELSE LET r == Head(results) IN
       MergeRelated(
         IF HasKey(d, r.id)
           THEN [i \in 1..Len(d) |->
                   IF d[i].id = r.id
                     THEN [d[i] EXCEPT !.related_score = RelatedScore(r.distance)]
                     ELSE d[i]]
           ELSE Append(d, Hit(r.id, 0, 0, RelatedScore(r.distance))),
         Tail(results))

\* The semantic and keyword weights exchanged.
CombinedScoreSwapped(h) ==
  h.semantic_score * KeywordWeight +
  h.keyword_score * SemanticWeight +
  h.related_score * RelatedWeight

\* semantic*0.5 + keyword*0.4 + related*0.1, in units of 1/(10*Unit).
CombinedScore(h) ==
  h.semantic_score * SemanticWeight +
  h.keyword_score * KeywordWeight +
  h.related_score * RelatedWeight

WithCombined(d) ==
  [i \in 1..Len(d) |->
     [id |-> d[i].id,
      semantic_score |-> d[i].semantic_score,
      keyword_score |-> d[i].keyword_score,
      related_score |-> d[i].related_score,
      combined_score |-> CombinedScore(d[i])]]

\* sorted(..., key=combined_score, reverse=True): stable, so records of
\* equal score keep their insertion order.
RECURSIVE InsertDesc(_, _)
InsertDesc(sorted, h) ==
  IF sorted = <<>> THEN <<h>>
  ELSE IF Head(sorted).combined_score >= h.combined_score
         THEN <<Head(sorted)>> \o InsertDesc(Tail(sorted), h)
         ELSE <<h>> \o sorted

RECURSIVE SortedDesc(_)
SortedDesc(d) ==
  IF d = <<>> THEN <<>>
  ELSE InsertDesc(SortedDesc(SubSeq(d, 1, Len(d) - 1)), d[Len(d)])

\* The keyword loop without its `if result['id'] in all_results` test.
RECURSIVE MergeKeywordAlwaysInsert(_, _)
MergeKeywordAlwaysInsert(d, results) ==
  IF results = <<>> THEN d
  ELSE MergeKeywordAlwaysInsert(
         Append(d, Hit(Head(results).id, 0, Head(results).score, 0)),
         Tail(results))

\* The dict after the keyword loop.
AfterKeyword(d, results) == MergeKeyword(d, results)

\* The dict after the three merge loops.
AllResults(sem, kw, rel) ==
  MergeRelated(AfterKeyword(MergeSemantic(<<>>, sem), kw), rel)

\* The dict once every record has its combined_score.
ScoredResults(sem, kw, rel) == WithCombined(AllResults(sem, kw, rel))

\* hybrid_search without reverse=True: ascending.
RECURSIVE InsertAsc(_, _)
InsertAsc(sorted, h) ==
  IF sorted = <<>> THEN <<h>>
  ELSE IF Head(sorted).combined_score <= h.combined_score
         THEN <<Head(sorted)>> \o InsertAsc(Tail(sorted), h)
         ELSE <<h>> \o sorted

RECURSIVE SortedAsc(_)
SortedAsc(d) ==
  IF d = <<>> THEN <<>>
  ELSE InsertAsc(SortedAsc(SubSeq(d, 1, Len(d) - 1)), d[Len(d)])

FusedRankingAscending(all_results, top_k) == Slice(SortedAsc(all_results), top_k)

\* The value hybrid_search returns: sorted(all_results.values())[:top_k].
FusedRanking(all_results, top_k) == Slice(SortedDesc(all_results), top_k)

\* ------------------------------------------------------------ context

Digits(i) == IF i < 10 THEN 1 ELSE 2

\* len(part) of the i-th block.
PartLen(i, id) == PartOverhead + Digits(i) + FieldsLen[id]

\* The loop of build_context from position i on.
RECURSIVE ContextLoop(_, _, _, _, _)
ContextLoop(list, i, context_parts, current_length, max_length) ==
  IF i > Len(list) THEN context_parts
  ELSE LET part == [source |-> i, id |-> list[i].id, len |-> PartLen(i, list[i].id)] IN
       IF current_length + part.len > max_length
         THEN context_parts
         ELSE ContextLoop(list, i + 1, Append(context_parts, part),
                          current_length + part.len, max_length)

\* The loop with `continue` where the code has `break`.
RECURSIVE ContextLoopContinue(_, _, _, _, _)
ContextLoopContinue(list, i, context_parts, current_length, max_length) ==
  IF i > Len(list) THEN context_parts
  ELSE LET part == [source |-> i, id |-> list[i].id, len |-> PartLen(i, list[i].id)] IN
       IF current_length + part.len > max_length
         THEN ContextLoopContinue(list, i + 1, context_parts, current_length,
                                  max_length)
         ELSE ContextLoopContinue(list, i + 1, Append(context_parts, part),
                                  current_length + part.len, max_length)

build_context_continue(list, max_length) ==
  ContextLoopContinue(list, 1, <<>>, 0, max_length)

\* "".join(context_parts): the text as the list of its blocks.
build_context(list, max_length) == ContextLoop(list, 1, <<>>, 0, max_length)

\* --------------------------------------------------------- generation

\* What requests.post / raise_for_status / response.json come to.
GenOutcomes == {"response", "no_response_key", "unreachable", "http_error", "timeout"}
GenFailures == {"unreachable", "http_error", "timeout"}

NotFoundAnswer == "I couldn't find relevant information in the knowledge base"
\* f"Error communicating with Ollama: {str(e)}"
ErrorAnswer(o) == "Error communicating with Ollama: " \o o

\* The except clause answering as if the reply lacked its 'response' key.
generate_answer_ollama_silent(o) ==
  CASE o = "response" -> "generated text"
    [] OTHER -> "No response generated"

\* generate_answer_ollama's return value: result.get('response', default),
\* or the text made of a caught RequestException.
generate_answer_ollama(o) ==
  CASE o = "response" -> "generated text"
    [] o = "no_response_key" -> "No response generated"
    [] OTHER -> ErrorAnswer(o)

\* The sources list query builds: one per entry, in order.
Sources(relevant_entries) ==
  [i \in 1..Len(relevant_entries) |->
     [entry |-> relevant_entries[i].id,
      relevance_score |-> relevant_entries[i].combined_score]]

\* query without its empty-result return.
ShortCircuitNever(relevant_entries) == FALSE

\* `if not relevant_entries` in query.
ShortCircuit(relevant_entries) == relevant_entries = <<>>

\* `if semantic_results` in hybrid_search.
ExpandsRelated(semantic_results) == semantic_results # <<>>

\* semantic_results[-1]['id'].
BottomSemanticEntryId(semantic_results) ==
  semantic_results[Len(semantic_results)].id

\* semantic_results[0]['id'] in hybrid_search.
TopSemanticEntryId(semantic_results) == semantic_results[1].id

\* ---------------------------------------------------------------- state

VARIABLES
  entries,               \* the Entry nodes of the graph store
  edges,                 \* its relationships between entries, <<from, to>>
  conversation_history,  \* app.py: session id -> list of records
  local                  \* per thread: the frames of the call in progress

vars == <<entries, edges, conversation_history, local>>

Questions == {"", "What do lions eat?"}
Bodies == {"json", "none"}

Idle ==
  [pc |-> "idle", entry |-> "none", question |-> "", session_id |-> "",
   top_k |-> 0, entry_id |-> "", depth |-> 0, max_length |-> 0,
   semantic_results |-> <<>>, keyword_results |-> <<>>,
   related_entries_results |-> <<>>, all_results |-> <<>>,
   relevant_entries |-> <<>>,
   context |-> <<>>, result |-> [answer |-> "", sources |-> <<>>],
   query_returned |-> FALSE, raised |-> "none",
   response |-> [status |-> 0], calls |-> <<>>]

PriorRecord == [question |-> "What do lions eat?", answer |-> NotFoundAnswer,
                sources |-> <<>>]

\* The history at start: one earlier exchange of session s1.
InitialHistory == [s \in {"s1"} |-> <<PriorRecord>>]

Init ==
  /\ entries \in SUBSET Ids
  /\ edges \in SUBSET (entries \X entries)
  /\ conversation_history = InitialHistory
  /\ local = [t \in Threads |-> Idle]

Call(op, arg) == [op |-> op, arg |-> arg]

\* The failure caught in hybrid_search and taken for an empty channel.
UnwindSwallowed(l) == "fuse"

\* Where control goes when a call of this thread raises: the except clause
\* of the /api/query handler, or out to the direct caller.
Unwind(l) == IF l.entry = "api" THEN "except" ELSE "done"

\* ------------------------------------------------------------- actions

\* POST /api/query, app.py 45-55: parse the body, reject an empty question,
\* else call rag_system.query, which calls hybrid_search(top_k=5).
ApiRequest(t) ==
  /\ local[t].pc = "idle"
  /\ \E b \in Bodies, q \in Questions, s \in Sessions :
       local' = [local EXCEPT ![t] =
         IF b = "none"
           THEN [@ EXCEPT !.entry = "api", !.pc = "except"]
         ELSE IF q = ""
           THEN [@ EXCEPT !.entry = "api", !.pc = "done", !.session_id = s,
                          !.response = [status |-> 400]]
           ELSE [@ EXCEPT !.entry = "api", !.pc = "semantic_search",
                          !.question = q, !.session_id = s,
                          !.top_k = QueryTopK]]
  /\ UNCHANGED <<entries, edges, conversation_history>>

\* A direct call of hybrid_search(query, top_k).
CallHybridSearch(t) ==
  /\ local[t].pc = "idle"
  /\ \E k \in 0..MaxTopK :
       local' = [local EXCEPT ![t] =
         [@ EXCEPT !.entry = "hybrid_search", !.pc = "semantic_search",
                   !.top_k = k]]
  /\ UNCHANGED <<entries, edges, conversation_history>>

\* A direct call of get_related_entries(entry_id, depth).
CallGetRelatedEntries(t) ==
  /\ local[t].pc = "idle"
  /\ \E id \in Ids, d \in 1..MaxDepth :
       local' = [local EXCEPT ![t] =
         [@ EXCEPT !.entry = "get_related_entries",
                   !.pc = "get_related_entries",
                   !.entry_id = id, !.depth = d]]
  /\ UNCHANGED <<entries, edges, conversation_history>>

\* A direct call of build_context(entries, max_length).
CallBuildContext(t) ==
  /\ local[t].pc = "idle"
  /\ \E ids \in UNION { [1..n -> Ids] : n \in 0..MaxList }, m \in MaxLengths :
       LET list == [i \in 1..Len(ids) |-> [id |-> ids[i]]] IN
       local' = [local EXCEPT ![t] =
         [@ EXCEPT !.entry = "build_context", !.pc = "done",
                   !.relevant_entries = list, !.max_length = m,
                   !.context = build_context(list, m)]]
  /\ UNCHANGED <<entries, edges, conversation_history>>

\* hybrid_search line 97: semantic_search(query, top_k=20) returns.
SemanticSearch(t) ==
  /\ local[t].pc = "semantic_search"
  /\ \E r \in SemanticOutcomes(entries, SemanticTopK) :
       local' = [local EXCEPT ![t] =
         [@ EXCEPT !.semantic_results = r, !.pc = "keyword_search",
                   !.calls = Append(@, Call("semantic_search", <<SemanticTopK>>))]]
  /\ UNCHANGED <<entries, edges, conversation_history>>

\* hybrid_search lines 103-108: keyword_search(query, top_k=5) returns; then
\* the relational expansion is called from the top semantic hit, or skipped.
KeywordSearch(t) ==
  /\ local[t].pc = "keyword_search"
  /\ \E r \in KeywordOutcomes(entries, KeywordTopK) :
       local' = [local EXCEPT ![t] =
         IF ExpandsRelated(local[t].semantic_results)
           THEN [@ EXCEPT !.keyword_results = r, !.pc = "get_related_entries",
                          !.entry_id = TopSemanticEntryId(local[t].semantic_results),
                          !.depth = RelatedDepth,
                          !.calls = Append(@, Call("keyword_search", <<KeywordTopK>>))]
           ELSE [@ EXCEPT !.keyword_results = r, !.pc = "fuse",
                          !.calls = Append(@, Call("keyword_search", <<KeywordTopK>>))]]
  /\ UNCHANGED <<entries, edges, conversation_history>>

\* get_related_entries runs its traversal and returns.
GetRelatedEntries(t) ==
  /\ local[t].pc = "get_related_entries"
  /\ \E r \in get_related_entries(entries, edges, local[t].entry_id, local[t].depth) :
       local' = [local EXCEPT ![t] =
         [@ EXCEPT !.related_entries_results = r,
                   !.pc = IF local[t].entry = "get_related_entries"
                            THEN "done" ELSE "fuse",
                   !.calls = Append(@, Call("get_related_entries",
                                            <<local[t].entry_id, local[t].depth>>))]]
  /\ UNCHANGED <<entries, edges, conversation_history>>

\* The arguments of the retrieval call the thread is at.
CallArgs(l) ==
  CASE l.pc = "semantic_search" -> <<SemanticTopK>>
    [] l.pc = "keyword_search" -> <<KeywordTopK>>
    [] OTHER -> <<l.entry_id, l.depth>>

\* A retrieval call (the embedding model, the session, the Cypher query)
\* raises; nothing in graph_rag.py catches it.
ChannelFails(t) ==
  /\ local[t].pc \in {"semantic_search", "keyword_search", "get_related_entries"}
  /\ local' = [local EXCEPT ![t] =
       [@ EXCEPT !.raised = local[t].pc, !.pc = Unwind(local[t]),
                 !.calls = Append(@, Call(local[t].pc, CallArgs(local[t])))]]
  /\ UNCHANGED <<entries, edges, conversation_history>>

\* hybrid_search lines 113-157: merge, score, sort, truncate, return.
Fuse(t) ==
  /\ local[t].pc = "fuse"
  /\ LET all == ScoredResults(local[t].semantic_results, local[t].keyword_results,
                              local[t].related_entries_results) IN
     local' = [local EXCEPT ![t] =
       [@ EXCEPT !.all_results = all,
                 !.relevant_entries = FusedRanking(all, local[t].top_k),
                 !.pc = IF local[t].entry = "hybrid_search" THEN "done" ELSE "query"]]
  /\ UNCHANGED <<entries, edges, conversation_history>>

\* query lines 234-240: the empty-result return, or build_context.
QueryBranch(t) ==
  /\ local[t].pc = "query"
  /\ local' = [local EXCEPT ![t] =
       IF ShortCircuit(local[t].relevant_entries)
         THEN [@ EXCEPT !.result = [answer |-> NotFoundAnswer, sources |-> <<>>],
                        !.query_returned = TRUE, !.pc = "history_check"]
         ELSE [@ EXCEPT !.max_length = ContextMaxLength,
                        !.context = build_context(local[t].relevant_entries,
                                                  ContextMaxLength),
                        !.pc = "generate"]]
  /\ UNCHANGED <<entries, edges, conversation_history>>

\* query lines 243-259: generate_answer_ollama returns (a generated text or
\* the text of a caught failure); the result is packaged and returned.
Generate(t) ==
  /\ local[t].pc = "generate"
  /\ \E o \in GenOutcomes :
       local' = [local EXCEPT ![t] =
         [@ EXCEPT !.result = [answer |-> generate_answer_ollama(o),
                               sources |-> Sources(local[t].relevant_entries),
                               context |-> local[t].context],
                   !.query_returned = TRUE, !.pc = "history_check",
                   !.calls = Append(@, Call("generate_answer_ollama", <<o>>))]]
  /\ UNCHANGED <<entries, edges, conversation_history>>

\* app.py line 57: if session_id not in conversation_history
HistoryCheck(t) ==
  /\ local[t].pc = "history_check"
  /\ local' = [local EXCEPT ![t] =
       [@ EXCEPT !.pc = IF local[t].session_id \in DOMAIN conversation_history
                          THEN "history_append" ELSE "history_init"]]
  /\ UNCHANGED <<entries, edges, conversation_history>>

\* app.py line 58: conversation_history[session_id] = []
HistoryInit(t) ==
  /\ local[t].pc = "history_init"
  /\ conversation_history' =
       [s \in DOMAIN conversation_history \cup {local[t].session_id} |->
          IF s = local[t].session_id THEN <<>> ELSE conversation_history[s]]
  /\ local' = [local EXCEPT ![t] = [@ EXCEPT !.pc = "history_append"]]
  /\ UNCHANGED <<entries, edges>>

\* app.py lines 60-72: append the record, answer 200.
HistoryAppend(t) ==
  /\ local[t].pc = "history_append"
  /\ conversation_history' =
       [conversation_history EXCEPT ![local[t].session_id] =
          Append(@, [question |-> local[t].question,
                     answer |-> local[t].result.answer,
                     sources |-> local[t].result.sources])]
  /\ local' = [local EXCEPT ![t] =
       [@ EXCEPT !.pc = "done",
                 !.response = [status |-> 200, success |-> TRUE,
                               answer |-> local[t].result.answer,
                               sources |-> local[t].result.sources,
                               session_id |-> local[t].session_id]]]
  /\ UNCHANGED <<entries, edges>>

\* app.py lines 74-79: except Exception: answer 500 with str(e).
ApiExcept(t) ==
  /\ local[t].pc = "except"
  /\ local' = [local EXCEPT ![t] =
       [@ EXCEPT !.pc = "done",
                 !.response = [status |-> 500, success |-> FALSE]]]
  /\ UNCHANGED <<entries, edges, conversation_history>>

Step(t) ==
  \/ ApiRequest(t)
  \/ CallHybridSearch(t)
  \/ CallGetRelatedEntries(t)
  \/ CallBuildContext(t)
  \/ SemanticSearch(t)
  \/ KeywordSearch(t)
  \/ GetRelatedEntries(t)
  \/ ChannelFails(t)
  \/ Fuse(t)
  \/ QueryBranch(t)
  \/ Generate(t)
  \/ HistoryCheck(t)
  \/ HistoryInit(t)
  \/ HistoryAppend(t)
  \/ ApiExcept(t)

\* One call at a time, on one thread.
Next == Step("t1")

Spec == Init /\ [][Next]_vars

\* ------------------------------------------------------------- claims

\* hybrid_search has returned to its caller on thread t.
HybridReturned(l) ==
  /\ l.entry \in {"api", "hybrid_search"}
  /\ l.raised = "none"
  /\ l.pc \in {"query", "generate", "history_check", "history_init",
               "history_append", "done"}
  /\ (l.entry = "api" /\ l.pc = "done" => l.response.status = 200)

CalledOps(l) == { l.calls[i].op : i \in 1..Len(l.calls) }

\* The score a channel gave an id, 0 when it did not surface it.
SemanticReceived(l, id) ==
  IF \E i \in 1..Len(l.semantic_results) : l.semantic_results[i].id = id
    THEN l.semantic_results[CHOOSE i \in 1..Len(l.semantic_results) :
                              l.semantic_results[i].id = id].similarity
    ELSE 0

KeywordReceived(l, id) ==
  IF \E i \in 1..Len(l.keyword_results) : l.keyword_results[i].id = id
    THEN l.keyword_results[CHOOSE i \in 1..Len(l.keyword_results) :
                             l.keyword_results[i].id = id].score
    ELSE 0

\* 1/distance of the row the relational channel gave for id: score s is
\* 1/distance exactly when s * distance = 1 (Unit).
IsRelatedReceived(l, id, s) ==
  IF \E i \in 1..Len(l.related_entries_results) : l.related_entries_results[i].id = id
    THEN LET r == l.related_entries_results[
                    CHOOSE i \in 1..Len(l.related_entries_results) :
                      l.related_entries_results[i].id = id] IN
         IF r.distance > 0 THEN s * r.distance = Unit ELSE s = 0
    ELSE s = 0

\* The ids the three channels surfaced in this pass.
SurfacedIds(l) ==
  { l.semantic_results[i].id : i \in 1..Len(l.semantic_results) } \cup
  { l.keyword_results[i].id : i \in 1..Len(l.keyword_results) } \cup
  { l.related_entries_results[i].id : i \in 1..Len(l.related_entries_results) }

\* C1: a query whose semantic search, keyword search and relational
\* expansion all gave no hits returns exactly the canned "not found" answer
\* with an empty sources list and no context field, and
\* generate_answer_ollama is not called in it.
C1_EmptyShortCircuit ==
  \A t \in Threads :
    LET l == local[t] IN
    ( /\ l.entry = "api"
      /\ l.raised = "none"
      /\ l.pc \in {"generate", "history_check", "history_init",
                   "history_append"} \/ l.query_returned
      /\ l.semantic_results = <<>>
      /\ l.keyword_results = <<>>
      /\ l.related_entries_results = <<>> )
    => /\ l.query_returned
       /\ l.result = [answer |-> NotFoundAnswer, sources |-> <<>>]
       /\ DOMAIN l.result = {"answer", "sources"}
       /\ "generate_answer_ollama" \notin CalledOps(l)

C1_Witness ==
  \E t \in Threads :
    /\ local[t].query_returned
    /\ local[t].pc = "done"
    /\ local[t].response.status = 200
    /\ local[t].semantic_results = <<>>
    /\ local[t].keyword_results = <<>>
    /\ "keyword_search" \in CalledOps(local[t])

\* C2: every hit hybrid_search returns has combined_score = 0.5*semantic +
\* 0.4*keyword + 0.1*related (held in units of 1/(10*Unit)), its semantic
\* and keyword scores being the channels' scores as received (0 when the
\* channel did not surface the entry) and its related score 1/distance of
\* the relational row (0 when there is none or the distance is 0); every
\* distance divided by is positive.
C2_CombinedScore ==
  \A t \in Threads :
    LET l == local[t] IN
    HybridReturned(l) =>
      /\ \A i \in 1..Len(l.relevant_entries) :
           LET h == l.relevant_entries[i] IN
           /\ h.semantic_score = SemanticReceived(l, h.id)
           /\ h.keyword_score = KeywordReceived(l, h.id)
           /\ IsRelatedReceived(l, h.id, h.related_score)
           /\ h.combined_score =
                5 * h.semantic_score + 4 * h.keyword_score + 1 * h.related_score
      /\ \A i \in 1..Len(l.related_entries_results) :
           l.related_entries_results[i].distance > 0

C2_Witness ==
  \E t \in Threads :
    /\ HybridReturned(local[t])
    /\ \E i \in 1..Len(local[t].relevant_entries) :
         /\ local[t].relevant_entries[i].semantic_score > 0
         /\ local[t].relevant_entries[i].keyword_score > 0
         /\ local[t].relevant_entries[i].related_score > 0
    /\ \E i \in 1..Len(local[t].relevant_entries) :
         /\ local[t].relevant_entries[i].semantic_score = 0
         /\ local[t].relevant_entries[i].keyword_score > 0
         /\ local[t].relevant_entries[i].related_score = 0

\* The combined score the channels' outputs give an id.
ExpectedCombined(l, id) ==
  5 * SemanticReceived(l, id) + 4 * KeywordReceived(l, id) +
  (IF \E i \in 1..Len(l.related_entries_results) :
        l.related_entries_results[i].id = id /\ l.related_entries_results[i].distance > 0
     THEN Unit \div (l.related_entries_results[
                       CHOOSE i \in 1..Len(l.related_entries_results) :
                         l.related_entries_results[i].id = id].distance)
     ELSE 0)

\* C3: for top_k >= 0, hybrid_search returns min(top_k, number of merged
\* hits) hits, so at most top_k; every merged entry left out scores no
\* higher than any returned one; combined_score never increases from one
\* position to the next.
C3_TopKSorted ==
  \A t \in Threads :
    LET l == local[t]
        r == l.relevant_entries
        returned == { r[i].id : i \in 1..Len(r) } IN
    HybridReturned(l) =>
      /\ Len(r) <= l.top_k
      /\ Len(r) = Min(l.top_k, Cardinality(SurfacedIds(l)))
      /\ returned \subseteq SurfacedIds(l)
      /\ \A i \in 1..Len(r) : r[i].combined_score = ExpectedCombined(l, r[i].id)
      /\ \A id \in SurfacedIds(l) \ returned :
           \A i \in 1..Len(r) : r[i].combined_score >= ExpectedCombined(l, id)
      /\ \A i \in 1..(Len(r) - 1) : r[i].combined_score >= r[i + 1].combined_score

C3_Witness ==
  \E t \in Threads :
    /\ HybridReturned(local[t])
    /\ local[t].top_k = 1
    /\ Len(local[t].relevant_entries) = 1
    /\ \E id \in SurfacedIds(local[t]) :
         ExpectedCombined(local[t], id) < local[t].relevant_entries[1].combined_score

\* C4: in the merged result of one fusion pass no two records share an
\* entry id; every surfaced id has exactly one record, which carries the
\* score of each channel that surfaced it and zero for each that did not.
C4_UniqueHits ==
  \A t \in Threads :
    LET l == local[t]
        d == l.all_results IN
    HybridReturned(l) =>
      /\ \A i, j \in 1..Len(d) : i # j => d[i].id # d[j].id
      /\ { d[i].id : i \in 1..Len(d) } = SurfacedIds(l)
      /\ \A i \in 1..Len(d) :
           /\ d[i].semantic_score = SemanticReceived(l, d[i].id)
           /\ d[i].keyword_score = KeywordReceived(l, d[i].id)
           /\ IsRelatedReceived(l, d[i].id, d[i].related_score)

C4_Witness ==
  \E t \in Threads :
    LET l == local[t] IN
    /\ HybridReturned(l)
    /\ Len(l.all_results) = 2
    /\ \E id \in Ids :
         /\ \E i \in 1..Len(l.semantic_results) : l.semantic_results[i].id = id
         /\ \E i \in 1..Len(l.keyword_results) : l.keyword_results[i].id = id
         /\ \E i \in 1..Len(l.related_entries_results) :
              l.related_entries_results[i].id = id

\* build_context has returned on thread t (called directly or by query).
ContextBuilt(l) ==
  \/ l.entry = "build_context" /\ l.pc = "done"
  \/ l.entry = "api" /\ l.pc = "generate"
  \/ l.query_returned /\ "context" \in DOMAIN l.result

\* C5: build_context returns the complete formatted blocks of a prefix of
\* the list, in order; it stops at the first block that would take the
\* accumulated length past max_length (max_length >= 0), so the text is
\* never longer than max_length, holds no partial block and no block after
\* the one it stopped at, and is empty for an empty list.
C5_ContextPrefix ==
  \A t \in Threads :
    LET l == local[t]
        list == l.relevant_entries
        n == Len(l.context) IN
    ContextBuilt(l) =>
      /\ n <= Len(list)
      /\ \A i \in 1..n :
           l.context[i] = [source |-> i, id |-> list[i].id,
                           len |-> PartLen(i, list[i].id)]
      /\ SumLen(l.context) <= l.max_length
      /\ n < Len(list) =>
           SumLen(l.context) + PartLen(n + 1, list[n + 1].id) > l.max_length
      /\ list = <<>> => l.context = <<>>

C5_Witness ==
  \E t \in Threads :
    LET l == local[t]
        n == Len(l.context) IN
    /\ ContextBuilt(l)
    /\ n >= 1
    /\ n + 1 < Len(l.relevant_entries)
    /\ SumLen(l.context) + PartLen(n + 2, l.relevant_entries[n + 2].id)
         <= l.max_length

\* get_related_entries has returned on thread t.
RelatedReturned(l) ==
  /\ l.raised = "none"
  /\ "get_related_entries" \in CalledOps(l)

\* C6: for every seed and depth >= 1, get_related_entries returns at most
\* 5 records, in ascending order of distance, and every row of the
\* traversal it leaves out is at least as far as every record it returns.
C6_RelatedLimitSorted ==
  \A t \in Threads :
    LET l == local[t]
        r == l.related_entries_results
        rows == RelatedRows(entries, edges, l.entry_id, l.depth) IN
    RelatedReturned(l) =>
      /\ Len(r) <= 5
      /\ \A i \in 1..(Len(r) - 1) : r[i].distance <= r[i + 1].distance
      /\ \A i \in 1..Len(r) : r[i] \in rows
      /\ \A row \in rows \ { r[i] : i \in 1..Len(r) } :
           \A i \in 1..Len(r) : r[i].distance <= row.distance

C6_Witness ==
  \E t \in Threads :
    LET l == local[t] IN
    /\ RelatedReturned(l)
    /\ Len(l.related_entries_results) = 5
    /\ Cardinality(RelatedRows(entries, edges, l.entry_id, l.depth)) > 5
    /\ l.depth > 1

\* C7: when the fused list is not empty and the generation call fails
\* (unreachable, HTTP error status, timeout), query raises nothing: it
\* returns a result whose answer is the error text and whose sources (one
\* per fused hit, in ranked order, relevance_score = combined_score) and
\* context are those built from the fused hits.
C7_GenerationFailure ==
  \A t \in Threads :
    LET l == local[t]
        n == Len(l.calls) IN
    ( /\ n > 0
      /\ l.calls[n].op = "generate_answer_ollama"
      /\ l.calls[n].arg[1] \in GenFailures )
    => /\ l.raised = "none"
       /\ l.query_returned
       /\ l.relevant_entries # <<>>
       /\ DOMAIN l.result = {"answer", "sources", "context"}
       /\ l.result.answer = "Error communicating with Ollama: " \o l.calls[n].arg[1]
       /\ Len(l.result.sources) = Len(l.relevant_entries)
       /\ \A i \in 1..Len(l.relevant_entries) :
            l.result.sources[i] =
              [entry |-> l.relevant_entries[i].id,
               relevance_score |-> l.relevant_entries[i].combined_score]
       /\ l.result.context = build_context(l.relevant_entries, 4000)
       /\ l.pc \in {"history_check", "history_init", "history_append", "done"}
       /\ l.pc = "done" => l.response.status = 200

C7_Witness ==
  \E t \in Threads :
    LET l == local[t]
        n == Len(l.calls) IN
    /\ n > 0
    /\ l.calls[n].op = "generate_answer_ollama"
    /\ l.calls[n].arg[1] = "timeout"
    /\ l.pc = "done"
    /\ Len(l.result.sources) = 2
    /\ Len(l.result.context) = 1

\* C8: in a query the relational expansion is called at most once, after
\* the semantic search has returned, with the id of the first semantic hit
\* and depth 1, and not at all when the semantic search returned no hits,
\* whatever the keyword search returned.
C8_RelatedOnceFromTopHit ==
  \A t \in Threads :
    LET l == local[t]
        c == l.calls
        at == { i \in 1..Len(c) : c[i].op = "get_related_entries" } IN
    l.entry \in {"api", "hybrid_search"} =>
      /\ Cardinality(at) <= 1
      /\ \A i \in at :
           /\ \E j \in 1..(i - 1) : c[j].op = "semantic_search"
           /\ l.semantic_results # <<>>
           /\ c[i].arg = <<l.semantic_results[1].id, 1>>
      /\ ( /\ "keyword_search" \in CalledOps(l)
           /\ l.raised # "keyword_search"
           /\ l.semantic_results # <<>> )
         => (l.pc = "get_related_entries" \/ at # {})
      /\ l.semantic_results = <<>> =>
           at = {} /\ l.pc # "get_related_entries"

C8_Witness ==
  \E t \in Threads :
    LET l == local[t] IN
    /\ l.entry = "api"
    /\ Len(l.semantic_results) = 2
    /\ l.semantic_results[1].similarity = l.semantic_results[2].similarity
    /\ l.keyword_results # <<>>
    /\ l.keyword_results[1].id # l.semantic_results[1].id
    /\ \E i \in 1..Len(l.calls) :
         /\ l.calls[i].op = "get_related_entries"
         /\ l.calls[i].arg = <<l.semantic_results[1].id, 1>>
    /\ l.pc = "done"

C8_WitnessSkipped ==
  \E t \in Threads :
    LET l == local[t] IN
    /\ HybridReturned(l)
    /\ l.semantic_results = <<>>
    /\ l.keyword_results # <<>>
    /\ "get_related_entries" \notin CalledOps(l)

\* The least distance among the traversal's rows for id.
ShortestDistance(rows, id) ==
  CHOOSE d \in { r.distance : r \in { x \in rows : x.id = id } } :
    \A r \in { x \in rows : x.id = id } : d <= r.distance

\* C9: for every seed and max_depth >= 1 the relational expansion reports
\* each reachable entry at most once, with its shortest hop distance from
\* the seed.
C9_DistinctShortest ==
  \A t \in Threads :
    LET l == local[t]
        r == l.related_entries_results
        rows == RelatedRows(entries, edges, l.entry_id, l.depth) IN
    RelatedReturned(l) =>
      /\ \A i, j \in 1..Len(r) : i # j => r[i].id # r[j].id
      /\ \A i \in 1..Len(r) : r[i].distance = ShortestDistance(rows, r[i].id)

\* C10: when a retrieval call fails, query returns no answer, the
\* generation service is not called, no later channel is queried and no
\* call is made twice; the failure reaches the caller, where /api/query
\* answers 500 without success and leaves the session history as it was.
C10_RetrievalFailure ==
  \A t \in Threads :
    LET l == local[t]
        c == l.calls IN
    l.raised # "none" =>
      /\ ~l.query_returned
      /\ l.result = Idle.result
      /\ l.relevant_entries = <<>>
      /\ "generate_answer_ollama" \notin CalledOps(l)
      /\ c[Len(c)].op = l.raised
      /\ \A i, j \in 1..Len(c) : i # j => c[i].op # c[j].op
      /\ l.pc \in {"except", "done"}
      /\ l.entry = "api" =>
           /\ l.pc = "done" => l.response = [status |-> 500, success |-> FALSE]
           /\ conversation_history = InitialHistory
      /\ l.entry # "api" => l.pc = "done"

C10_Witness ==
  \E t \in Threads :
    LET l == local[t] IN
    /\ l.entry = "api"
    /\ l.raised = "keyword_search"
    /\ l.semantic_results # <<>>
    /\ l.pc = "done"
    /\ l.response.status = 500

\* The place of an identifier in ascending (lexicographic) order.
IdRank(id) == IF id = "a" THEN 1 ELSE 2

\* The same list in every order of its elements.
Reorderings(seq) ==
  { [i \in 1..Len(seq) |-> seq[p[i]]] : p \in Perms(1..Len(seq)) }

\* C11: the fused ranking depends on the merged hits alone: hits of equal
\* combined score stand in ascending order of identifier, so the same hits
\* with the same scores, returned by the channels in any other order, give
\* the same ranked list and the same top_k truncation.
C11_DeterministicTies ==
  \A t \in Threads :
    LET l == local[t]
        r == l.relevant_entries IN
    HybridReturned(l) =>
      /\ \A i \in 1..(Len(r) - 1) :
           r[i].combined_score = r[i + 1].combined_score =>
             IdRank(r[i].id) < IdRank(r[i + 1].id)
      /\ \A s \in Reorderings(l.semantic_results),
            k \in Reorderings(l.keyword_results),
            g \in Reorderings(l.related_entries_results) :
           FusedRanking(ScoredResults(s, k, g), l.top_k) = r

\* ------------------------------------------------- concurrent requests

\* The entries of the store while two requests are served at once.
ConcurrentIds == {"a"}

InitConcurrent ==
  /\ entries \in SUBSET ConcurrentIds
  /\ edges \in SUBSET (entries \X entries)
  /\ conversation_history = InitialHistory
  /\ local = [t \in Threads |-> Idle]

\* A step of thread t handling POST /api/query.
ServerStep(t) ==
  \/ ApiRequest(t)
  \/ SemanticSearch(t)
  \/ KeywordSearch(t)
  \/ GetRelatedEntries(t)
  \/ ChannelFails(t)
  \/ Fuse(t)
  \/ QueryBranch(t)
  \/ Generate(t)
  \/ HistoryCheck(t)
  \/ HistoryInit(t)
  \/ HistoryAppend(t)
  \/ ApiExcept(t)

\* The threaded server: the steps of the request threads interleave.
NextConcurrent == \E t \in Threads : ServerStep(t)

SpecConcurrent == InitConcurrent /\ [][NextConcurrent]_vars

\* The history list of session s, empty when the session has none.
HistoryOf(s) ==
  IF s \in DOMAIN conversation_history THEN conversation_history[s] ELSE <<>>

RECURSIVE TotalRecords(_)
TotalRecords(S) ==
  IF S = {} THEN 0
  ELSE LET s == CHOOSE x \in S : TRUE IN
       Len(HistoryOf(s)) + TotalRecords(S \ {s})

\* /api/query has answered 200 on thread t.
Succeeded(l) == l.entry = "api" /\ l.pc = "done" /\ l.response.status = 200

\* C12: the session history is append-only under every interleaving of
\* concurrently handled requests: each /api/query request that completes
\* successfully has added exactly one record to the history of its session,
\* no stored record is removed or replaced (two first requests of one
\* session included), and each query's fusion map is its own.
C12_AppendOnly ==
  /\ Len(HistoryOf("s1")) >= 1
  /\ HistoryOf("s1")[1] = PriorRecord
  /\ \A t \in Threads :
       Succeeded(local[t]) =>
         \E i \in 1..Len(HistoryOf(local[t].session_id)) :
           HistoryOf(local[t].session_id)[i] =
             [question |-> local[t].question,
              answer |-> local[t].result.answer,
              sources |-> local[t].result.sources]
  /\ TotalRecords(Sessions) =
       1 + Cardinality({ t \in Threads : Succeeded(local[t]) })
  /\ \A t \in Threads :
       HybridReturned(local[t]) =>
         local[t].all_results =
           ScoredResults(local[t].semantic_results, local[t].keyword_results,
                         local[t].related_entries_results)

====
